---- MODULE Spec2Model ----
(***************************************************************************)
(* The STT command adapter of src/tcl/stt/stt.c: two Tcl object commands   *)
(* (ModelObjCmd, RecognizerObjCmd) that forward subcommands to an engine   *)
(* function table (EngineAPI, stt.h), and the two delete procedures        *)
(* (model_delete, recognizer_delete) the interpreter runs when a command   *)
(* is deleted.                                                             *)
(*                                                                         *)
(* Pointers are integers, NULL is 0.  C array index objv[k] is objv[k+1]   *)
(* here.  A ModelCtx / RecognizerCtx lives in a heap slot (mctx / rctx)    *)
(* whose alloc field says whether ckalloc has handed it out ("live"),      *)
(* ckfree has taken it back ("freed") or it was never used ("none").       *)
(***************************************************************************)
EXTENDS Integers, Sequences, FiniteSets, TLC

(* ---------------------------------------------------------------- bounds *)
MaxModels == 1
MaxRecognizers == 2

ModelIds == 1..MaxModels
RecIds == 1..MaxRecognizers

(* ------------------------------------------------------------- constants *)
NULL == 0
\* a char* that is NULL (Tcl strings themselves never contain this text)
NullStr == "(null)"

\* EngineAPI tables an engine can install in ModelCtx.engine_funcs:
\* all seven entries, or create_recognizer left NULL.
FullAPI == 1
PartialAPI == 2
\* what a read of a freed ModelCtx can yield besides the old value and NULL:
\* a pointer that is no EngineAPI table
WildPtr == 3

HasCreateRecognizer(api) == api = FullAPI

\* engine type tag and function table of the engines a model can be loaded with
Engines == { [type |-> "vosk", funcs |-> FullAPI],
             [type |-> "sherpa", funcs |-> PartialAPI] }

ModelName(i) == "m" \o ToString(i)
RecName(j) == "r" \o ToString(j)

(* ------------------------------------------------------------------ state *)
VARIABLES
    commands,   \* names of the commands registered in the interpreter
    mctx,       \* heap of ModelCtx, by model id
    rctx,       \* heap of RecognizerCtx, by recognizer id
    call,       \* the last operation: what was invoked, with which objv
    result,     \* its completion code and interpreter result
    trace,      \* what it did, in order: engine calls and destructor steps
    crashed,    \* the process died (call through a pointer that is no table)
    mfreed,     \* model id -> number of model_free calls on its handle
    rfreed,     \* recognizer id -> number of recognizer_free calls on its handle
    mdtor,      \* model id -> number of model_delete runs on its context
    rdtor       \* recognizer id -> number of recognizer_delete runs on its context

vars == <<commands, mctx, rctx, call, result, trace, crashed,
          mfreed, rfreed, mdtor, rdtor>>

NoModelCtx == [alloc |-> "none", model |-> NULL, model_path |-> NullStr,
               engine_type |-> NullStr, cmdname |-> NullStr, engine_funcs |-> NULL]

NoRecognizerCtx == [alloc |-> "none", recognizer |-> NULL, model |-> NULL,
                    model_ctx |-> NULL, cmdname |-> NullStr, closed |-> 0]

(* ------------------------------------------------------------ trace events *)
\* op: the function or step; arg: its pointer argument (a handle or a context);
\* n: its int argument; ret: what the engine returned, as text
Ev(op, arg, n, ret) == [op |-> op, arg |-> arg, n |-> n, ret |-> ret]

\* the seven entries of the EngineAPI table
EngineOps == {"model_free", "recognizer_free", "accept_waveform", "get_text",
              "get_final", "reset", "create_recognizer"}

EngineCalls(tr) == SelectSeq(tr, LAMBDA e : e.op \in EngineOps)

(* ------------------------------------------------ Tcl library conversions *)
\* The argument texts the model invokes the commands with, character by
\* character.  TLA+ strings are atomic, so the conversions below work on
\* this spelling.
Chars(s) ==
    CASE s = "" -> <<>>
      [] s = "-" -> <<"-">>
      [] s = "abc" -> <<"a", "b", "c">>
      [] s = "1x" -> <<"1", "x">>
      [] s = "0" -> <<"0">>
      [] s = "-5" -> <<"-", "5">>
      [] s = "16000" -> <<"1", "6", "0", "0", "0">>
      [] s = "2147483647" -> <<"2", "1", "4", "7", "4", "8", "3", "6", "4", "7">>
      [] s = "3000000000" -> <<"3", "0", "0", "0", "0", "0", "0", "0", "0", "0">>
      [] s = "4294967296" -> <<"4", "2", "9", "4", "9", "6", "7", "2", "9", "6">>

DigitChars == {"0", "1", "2", "3", "4", "5", "6", "7", "8", "9"}

DigitVal(c) ==
    CASE c = "0" -> 0 [] c = "1" -> 1 [] c = "2" -> 2 [] c = "3" -> 3
      [] c = "4" -> 4 [] c = "5" -> 5 [] c = "6" -> 6 [] c = "7" -> 7
      [] c = "8" -> 8 [] c = "9" -> 9

RECURSIVE DecimalValue(_)
DecimalValue(ds) ==
    IF ds = <<>> THEN 0
    ELSE DecimalValue(SubSeq(ds, 1, Len(ds) - 1)) * 10 + DigitVal(ds[Len(ds)])

\* A decimal magnitude split into two limbs of five digits, hi * 10^5 + lo,
\* so that values up to UINT_MAX are compared without leaving 32 bits.
Limbs(ds) ==
    IF Len(ds) <= 5 THEN [hi |-> 0, lo |-> DecimalValue(ds)]
    ELSE [hi |-> DecimalValue(SubSeq(ds, 1, Len(ds) - 5)),
          lo |-> DecimalValue(SubSeq(ds, Len(ds) - 4, Len(ds)))]

\* magnitude <= INT_MAX = 21474 83647
FitsInt(l) == l.hi < 21474 \/ (l.hi = 21474 /\ l.lo <= 83647)
\* magnitude <= UINT_MAX = 42949 67295
FitsUInt(l) == l.hi < 42949 \/ (l.hi = 42949 /\ l.lo <= 67295)

\* magnitude - 2^32 for INT_MAX < magnitude <= UINT_MAX, what (int) of the
\* long yields on a two's complement machine
WrapInt(l) == (l.hi - 42948) * 100000 + (l.lo - 167296)

\* Tcl_GetIntFromObj (Tcl 8.6) on a decimal text with an optional minus sign:
\* a long in -UINT_MAX..UINT_MAX is accepted and stored as (int) of it, a
\* larger one is refused, and so is a text that is no integer.
Tcl_GetIntFromObj(s) ==
    LET cs == Chars(s)
        neg == Len(cs) > 0 /\ cs[1] = "-"
        ds == IF neg THEN Tail(cs) ELSE cs
        l == Limbs(ds)
    IN  IF Len(ds) = 0 \/ \E k \in 1..Len(ds) : ds[k] \notin DigitChars
        THEN [code |-> "TCL_ERROR", value |-> 0,
              msg |-> <<"expected integer but got \"", s, "\"">>]
        ELSE IF Len(ds) > 10 \/ ~FitsUInt(l)
        THEN [code |-> "TCL_ERROR", value |-> 0,
              msg |-> <<"integer value too large to represent">>]
        ELSE IF FitsInt(l)
        THEN [code |-> "TCL_OK", msg |-> <<>>,
              value |-> IF neg THEN 0 - l.hi * 100000 - l.lo
                        ELSE l.hi * 100000 + l.lo]
        ELSE [code |-> "TCL_OK", msg |-> <<>>,
              value |-> IF neg /\ ~(l.hi = 21474 /\ l.lo = 83648)
                        THEN 0 - WrapInt(l) ELSE WrapInt(l)]

\* Tcl_GetByteArrayFromObj (Tcl 8.6): never NULL for a string of byte
\* characters; the length is the number of bytes.
Tcl_GetByteArrayFromObj(s) == [data |-> 1, length |-> Len(s)]

\* Tcl_NewBooleanObj: any non-zero int is the boolean 1
Tcl_NewBooleanObj(v) == IF v # 0 THEN "1" ELSE "0"

\* Tcl_WrongNumArgs(interp, n, objv, message)
Tcl_WrongNumArgs(n, objv, message) ==
    <<"wrong # args: should be \"">> \o SubSeq(objv, 1, n) \o <<message, "\"">>

(* ------------------------------------------------------- delete procedures *)
\* model_delete(cd): heap is the ModelCtx heap; the result is the heap
\* afterwards and the steps taken.
model_delete(cd, heap) ==
    IF cd = NULL THEN [heap |-> heap, ev |-> <<>>]
    ELSE
    LET ctx == heap[cd]
        free == ctx.model # NULL /\ ctx.engine_funcs # NULL
    IN  [heap |-> [heap EXCEPT ![cd] =
                     [alloc |-> "freed",
                      model |-> IF free THEN NULL ELSE ctx.model,
                      model_path |-> NullStr,
                      engine_type |-> NullStr,
                      cmdname |-> NullStr,
                      engine_funcs |-> ctx.engine_funcs]],
         ev |-> <<Ev("model_delete", cd, 0, "")>>
                \o (IF free THEN <<Ev("model_free", ctx.model, 0, ""),
                                   Ev("model=NULL", cd, 0, "")>>
                    ELSE <<>>)
                \o <<Ev("ckfree ModelCtx", cd, 0, "")>>]

\* recognizer_delete that calls recognizer_free without looking at the handle
recognizer_delete_NoHandleGuard(cd, heap, efuncs) ==
    IF cd = NULL THEN [heap |-> heap, ev |-> <<>>, crash |-> FALSE]
    ELSE
    LET ctx == heap[cd]
    IN  [heap |-> [heap EXCEPT ![cd] =
                     [alloc |-> "freed", recognizer |-> NULL, model |-> NULL,
                      model_ctx |-> ctx.model_ctx, cmdname |-> NullStr, closed |-> 1]],
         ev |-> <<Ev("recognizer_delete", cd, 0, ""), Ev("closed=1", cd, 0, ""),
                  Ev("recognizer_free", ctx.recognizer, 0, ""),
                  Ev("recognizer=NULL", cd, 0, ""),
                  Ev("ckfree RecognizerCtx", cd, 0, "")>>,
         crash |-> FALSE]

\* recognizer_delete that releases the handle first and sets closed afterwards
recognizer_delete_FreeFirst(cd, heap, efuncs) ==
    IF cd = NULL THEN [heap |-> heap, ev |-> <<>>, crash |-> FALSE]
    ELSE
    LET ctx == heap[cd]
        free == ctx.recognizer # NULL /\ ctx.model_ctx # NULL /\ efuncs # NULL
        start == <<Ev("recognizer_delete", cd, 0, "")>>
                 \o (IF ctx.recognizer # NULL /\ ctx.model_ctx # NULL
                     THEN <<Ev("read engine_funcs", ctx.model_ctx, 0, "")>>
                     ELSE <<>>)
    IN  IF free /\ efuncs = WildPtr
        THEN [heap |-> heap, ev |-> start, crash |-> TRUE]
        ELSE
        [heap |-> [heap EXCEPT ![cd] =
                     [alloc |-> "freed",
                      recognizer |-> IF free THEN NULL ELSE ctx.recognizer,
                      model |-> NULL,
                      model_ctx |-> ctx.model_ctx,
                      cmdname |-> NullStr,
                      closed |-> 1]],
         ev |-> start
                \o (IF free THEN <<Ev("recognizer_free", ctx.recognizer, 0, ""),
                                   Ev("recognizer=NULL", cd, 0, "")>>
                    ELSE <<>>)
                \o <<Ev("closed=1", cd, 0, ""), Ev("ckfree RecognizerCtx", cd, 0, "")>>,
         crash |-> FALSE]

\* recognizer_delete(cd): heap is the RecognizerCtx heap; efuncs is what the
\* read of ctx->model_ctx->engine_funcs yields (lines 40-41).  A call through
\* a pointer that is no EngineAPI table ends the process.
recognizer_delete(cd, heap, efuncs) ==
    IF cd = NULL THEN [heap |-> heap, ev |-> <<>>, crash |-> FALSE]
    ELSE
    LET ctx == heap[cd]
        free == ctx.recognizer # NULL /\ ctx.model_ctx # NULL /\ efuncs # NULL
        start == <<Ev("recognizer_delete", cd, 0, ""), Ev("closed=1", cd, 0, "")>>
                 \o (IF ctx.recognizer # NULL /\ ctx.model_ctx # NULL
                     THEN <<Ev("read engine_funcs", ctx.model_ctx, 0, "")>>
                     ELSE <<>>)
    IN  IF free /\ efuncs = WildPtr
        THEN [heap |-> [heap EXCEPT ![cd].closed = 1], ev |-> start, crash |-> TRUE]
        ELSE
        [heap |-> [heap EXCEPT ![cd] =
                     [alloc |-> "freed",
                      recognizer |-> IF free THEN NULL ELSE ctx.recognizer,
                      model |-> NULL,
                      model_ctx |-> ctx.model_ctx,
                      cmdname |-> NullStr,
                      closed |-> 1]],
         ev |-> start
                \o (IF free THEN <<Ev("recognizer_free", ctx.recognizer, 0, ""),
                                   Ev("recognizer=NULL", cd, 0, "")>>
                    ELSE <<>>)
                \o <<Ev("ckfree RecognizerCtx", cd, 0, "")>>,
         crash |-> FALSE]

(* ------------------------------------------------------------ interpreter *)
\* S is the program state an operation works on:
\* [commands, mctx, rctx].  A command is [name, proc, cd]; its delete
\* procedure is model_delete for ModelObjCmd and recognizer_delete for
\* RecognizerObjCmd.
Registered(S, name) == \E c \in S.commands : c.name = name

Command(S, name) == CHOOSE c \in S.commands : c.name = name

\* What a read of the engine_funcs field of the ModelCtx at m can yield: the
\* field while the context is live; once it is freed the old value, NULL or
\* a pointer that is no table.  Through m = NULL no read yields a value: the
\* handler faults there (line 72), recognizer_delete does not read (line 40).
ReadEngineFuncs(heap, m) ==
    IF m = NULL THEN {}
    ELSE IF heap[m].alloc = "live" THEN {heap[m].engine_funcs}
    ELSE {heap[m].engine_funcs, NULL, WildPtr}

\* the value an operation has in hand after its read, NULL where there is none
EngineFuncsRead(heap, m) ==
    IF ReadEngineFuncs(heap, m) = {} THEN {NULL} ELSE ReadEngineFuncs(heap, m)

\* Tcl_DeleteCommand(interp, name): the command's delete procedure runs,
\* once, and then the command leaves the interpreter; an unknown name changes
\* nothing.
\* efuncs: see recognizer_delete.
Tcl_DeleteCommand(S, name, efuncs) ==
    IF ~Registered(S, name) THEN [st |-> S, ev |-> <<>>, crash |-> FALSE]
    ELSE
    LET c == Command(S, name)
        rest == S.commands \ {c}
    IN  IF c.proc = "ModelObjCmd"
        THEN LET d == model_delete(c.cd, S.mctx)
             IN  [st |-> [commands |-> rest, mctx |-> d.heap, rctx |-> S.rctx],
                  ev |-> d.ev, crash |-> FALSE]
        ELSE LET d == recognizer_delete(c.cd, S.rctx, efuncs)
             IN  [st |-> [commands |-> rest, mctx |-> S.mctx, rctx |-> d.heap],
                  ev |-> d.ev, crash |-> d.crash]

(* ------------------------------------------------------- handler outcomes *)
\* What a handler hands back: the state afterwards, the completion code, the
\* interpreter result (a message as the list of its parts), the steps taken.
Outcome(S, code, value, ev) ==
    [st |-> S, code |-> code, value |-> value, ev |-> ev, crash |-> FALSE]

Crash(S, ev) ==
    [st |-> S, code |-> "CRASH", value |-> <<>>, ev |-> ev, crash |-> TRUE]

IsEngineTable(api) == api \in {FullAPI, PartialAPI}

(* ------------------------------------------------------ recognizer command *)
\* In the handlers below, in.efuncs is what the read of
\* ctx->model_ctx->engine_funcs at line 72 yields, in.dfuncs what the read in
\* the delete procedure yields, in.wave and in.text what the engine returns.

\* accept-waveform that only checks that a payload is there
RecognizerAcceptWaveform_AtLeastOne(cd, objv, S, in) ==
    IF Len(objv) < 3
    THEN Outcome(S, "TCL_ERROR", Tcl_WrongNumArgs(2, objv, "audio_data"), <<>>)
    ELSE LET ba == Tcl_GetByteArrayFromObj(objv[3])
         IN  IF ba.data = NULL \/ ba.length <= 0
             THEN Outcome(S, "TCL_ERROR", <<"invalid audio data">>, <<>>)
             ELSE IF ~IsEngineTable(in.efuncs) THEN Crash(S, <<>>)
             ELSE Outcome(S, "TCL_OK", <<Tcl_NewBooleanObj(in.wave)>>,
                          <<Ev("accept_waveform", S.rctx[cd].recognizer, ba.length,
                               ToString(in.wave))>>)

\* accept-waveform that forwards the payload without looking at its length
RecognizerAcceptWaveform_NoLengthCheck(cd, objv, S, in) ==
    IF Len(objv) # 3
    THEN Outcome(S, "TCL_ERROR", Tcl_WrongNumArgs(2, objv, "audio_data"), <<>>)
    ELSE LET ba == Tcl_GetByteArrayFromObj(objv[3])
         IN  IF ~IsEngineTable(in.efuncs) THEN Crash(S, <<>>)
             ELSE Outcome(S, "TCL_OK", <<Tcl_NewBooleanObj(in.wave)>>,
                          <<Ev("accept_waveform", S.rctx[cd].recognizer, ba.length,
                               ToString(in.wave))>>)

\* lines 74-90
RecognizerAcceptWaveform(cd, objv, S, in) ==
    IF Len(objv) # 3
    THEN Outcome(S, "TCL_ERROR", Tcl_WrongNumArgs(2, objv, "audio_data"), <<>>)
    ELSE LET ba == Tcl_GetByteArrayFromObj(objv[3])
         IN  IF ba.data = NULL \/ ba.length <= 0
             THEN Outcome(S, "TCL_ERROR", <<"invalid audio data">>, <<>>)
             ELSE IF ~IsEngineTable(in.efuncs) THEN Crash(S, <<>>)
             ELSE Outcome(S, "TCL_OK", <<Tcl_NewBooleanObj(in.wave)>>,
                          <<Ev("accept_waveform", S.rctx[cd].recognizer, ba.length,
                               ToString(in.wave))>>)

\* lines 92-96
RecognizerText(cd, objv, S, in) ==
    IF ~IsEngineTable(in.efuncs) THEN Crash(S, <<>>)
    ELSE Outcome(S, "TCL_OK", <<IF in.text # NullStr THEN in.text ELSE "">>,
                 <<Ev("get_text", cd, 0, in.text)>>)

\* lines 98-102
RecognizerFinalResult(cd, objv, S, in) ==
    IF ~IsEngineTable(in.efuncs) THEN Crash(S, <<>>)
    ELSE Outcome(S, "TCL_OK", <<IF in.text # NullStr THEN in.text ELSE "">>,
                 <<Ev("get_final", cd, 0, in.text)>>)

\* reset that also marks the recognizer closed
RecognizerReset_Closing(cd, objv, S, in) ==
    IF ~IsEngineTable(in.efuncs) THEN Crash(S, <<>>)
    ELSE Outcome([S EXCEPT !.rctx[cd].closed = 1], "TCL_OK", <<"ok">>,
                 <<Ev("reset", cd, 0, "")>>)

\* lines 104-108
RecognizerReset(cd, objv, S, in) ==
    IF ~IsEngineTable(in.efuncs) THEN Crash(S, <<>>)
    ELSE Outcome(S, "TCL_OK", <<"ok">>, <<Ev("reset", cd, 0, "")>>)

\* close that releases the handle and the context itself and leaves the
\* command registered
RecognizerClose_InPlace(cd, objv, S, in) ==
    Outcome([S EXCEPT !.rctx[cd] = [@ EXCEPT !.alloc = "freed", !.recognizer = NULL]],
            "TCL_OK", <<"ok">>,
            <<Ev("recognizer_free", S.rctx[cd].recognizer, 0, "")>>)

\* lines 110-114
RecognizerClose(cd, objv, S, in) ==
    LET d == Tcl_DeleteCommand(S, objv[1], in.dfuncs)
    IN  IF d.crash THEN Crash(d.st, d.ev)
        ELSE Outcome(d.st, "TCL_OK", <<"ok">>, d.ev)

\* lines 116-117 and 166-167
UnknownSubcommand(S, sub) ==
    Outcome(S, "TCL_ERROR", <<"unknown subcommand \"", sub, "\"">>, <<>>)

\* o, with the steps ev before its own
After(ev, o) == [o EXCEPT !.ev = ev \o @]

\* a dispatcher that compares the subcommand without regard to case and
\* accepts an abbreviation
RecognizerObjCmd_Lenient(cd, objv, S, in) ==
    IF cd = NULL \/ S.rctx[cd].closed # 0
    THEN Outcome(S, "TCL_ERROR", <<"recognizer closed">>, <<>>)
    ELSE IF Len(objv) < 2
    THEN Outcome(S, "TCL_ERROR", Tcl_WrongNumArgs(1, objv, "subcommand ?args?"), <<>>)
    ELSE IF S.rctx[cd].model_ctx = NULL
    THEN Crash(S, <<>>)
    ELSE
    LET sub == objv[2]
        read == <<Ev("read engine_funcs", S.rctx[cd].model_ctx, 0, "")>>
    IN  After(read,
              IF sub = "accept-waveform" THEN RecognizerAcceptWaveform(cd, objv, S, in)
              ELSE IF sub \in {"text", "Text", "tex"} THEN RecognizerText(cd, objv, S, in)
              ELSE IF sub = "final-result" THEN RecognizerFinalResult(cd, objv, S, in)
              ELSE IF sub = "reset" THEN RecognizerReset(cd, objv, S, in)
              ELSE IF sub = "close" THEN RecognizerClose(cd, objv, S, in)
              ELSE UnknownSubcommand(S, sub))

\* a handler that looks at the argument count before the closed flag
RecognizerObjCmd_ArityFirst(cd, objv, S, in) ==
    IF Len(objv) < 2
    THEN Outcome(S, "TCL_ERROR", Tcl_WrongNumArgs(1, objv, "subcommand ?args?"), <<>>)
    ELSE IF cd = NULL \/ S.rctx[cd].closed # 0
    THEN Outcome(S, "TCL_ERROR", <<"recognizer closed">>, <<>>)
    ELSE IF S.rctx[cd].model_ctx = NULL
    THEN Crash(S, <<>>)
    ELSE
    LET sub == objv[2]
        read == <<Ev("read engine_funcs", S.rctx[cd].model_ctx, 0, "")>>
    IN  After(read,
              IF sub = "accept-waveform" THEN RecognizerAcceptWaveform(cd, objv, S, in)
              ELSE IF sub = "text" THEN RecognizerText(cd, objv, S, in)
              ELSE IF sub = "final-result" THEN RecognizerFinalResult(cd, objv, S, in)
              ELSE IF sub = "reset" THEN RecognizerReset(cd, objv, S, in)
              ELSE IF sub = "close" THEN RecognizerClose(cd, objv, S, in)
              ELSE UnknownSubcommand(S, sub))

\* RecognizerObjCmd(cd, interp, objc, objv)
RecognizerObjCmd(cd, objv, S, in) ==
    IF cd = NULL \/ S.rctx[cd].closed # 0
    THEN Outcome(S, "TCL_ERROR", <<"recognizer closed">>, <<>>)
    ELSE IF Len(objv) < 2
    THEN Outcome(S, "TCL_ERROR", Tcl_WrongNumArgs(1, objv, "subcommand ?args?"), <<>>)
    ELSE IF S.rctx[cd].model_ctx = NULL
    THEN Crash(S, <<>>)
    ELSE
    LET sub == objv[2]
        read == <<Ev("read engine_funcs", S.rctx[cd].model_ctx, 0, "")>>
    IN  After(read,
              IF sub = "accept-waveform" THEN RecognizerAcceptWaveform(cd, objv, S, in)
              ELSE IF sub = "text" THEN RecognizerText(cd, objv, S, in)
              ELSE IF sub = "final-result" THEN RecognizerFinalResult(cd, objv, S, in)
              ELSE IF sub = "reset" THEN RecognizerReset(cd, objv, S, in)
              ELSE IF sub = "close" THEN RecognizerClose(cd, objv, S, in)
              ELSE UnknownSubcommand(S, sub))

(* ------------------------------------------------------------ engine side *)
FreeRecIds(S) == {j \in RecIds : S.rctx[j].alloc = "none"}

\* The slot a context that never gets a command is built in.
ScratchId == 0 - 1

\* EngineAPI.create_recognizer(model_ctx, interp, sample_rate), supplied by
\* the engine.  how = "ok": it allocates a RecognizerCtx that borrows the
\* ModelCtx, registers the recognizer command with recognizer_delete as its
\* delete procedure and returns the command's name.  how = "fail": the engine
\* could not create its recognizer; it releases the half-built context (no
\* handle yet) through recognizer_delete and reports an error.
EngineCreateRecognizer(S, mcd, rate, how) ==
    LET ok == how = "ok" /\ FreeRecIds(S) # {}
        call_ev == Ev("create_recognizer", mcd, rate,
                      IF ok THEN "TCL_OK" ELSE "TCL_ERROR")
    IN  IF ok
        THEN LET j == CHOOSE x \in FreeRecIds(S) : \A y \in FreeRecIds(S) : x <= y
                 new == [alloc |-> "live", recognizer |-> j,
                         model |-> S.mctx[mcd].model, model_ctx |-> mcd,
                         cmdname |-> RecName(j), closed |-> 0]
             IN  Outcome([commands |-> S.commands \cup
                                  {[name |-> RecName(j), proc |-> "RecognizerObjCmd",
                                    cd |-> j]},
                          mctx |-> S.mctx,
                          rctx |-> [S.rctx EXCEPT ![j] = new]],
                         "TCL_OK", <<RecName(j)>>, <<call_ev>>)
        ELSE LET half == [alloc |-> "live", recognizer |-> NULL,
                          model |-> S.mctx[mcd].model, model_ctx |-> mcd,
                          cmdname |-> NullStr, closed |-> 0]
                 d == recognizer_delete(ScratchId, [k \in {ScratchId} |-> half],
                                        S.mctx[mcd].engine_funcs)
             IN  Outcome(S, "TCL_ERROR", <<"failed to create recognizer">>,
                         <<call_ev>> \o d.ev)

(* ----------------------------------------------------------- model command *)
\* in.create is how the engine's create_recognizer goes.

\* create_recognizer that asks the engine a second time when it fails
ModelCreateRecognizer_Retry(cd, objv, S, in) ==
    IF Len(objv) # 4 \/ objv[3] # "-rate"
    THEN Outcome(S, "TCL_ERROR", Tcl_WrongNumArgs(2, objv, "-rate sample_rate"), <<>>)
    ELSE LET r == Tcl_GetIntFromObj(objv[4])
             ctx == S.mctx[cd]
             api == ctx.engine_funcs
             first == EngineCreateRecognizer(S, cd, r.value, in.create)
         IN  IF r.code # "TCL_OK"
             THEN Outcome(S, "TCL_ERROR", r.msg, <<>>)
             ELSE IF api # NULL /\ HasCreateRecognizer(api)
             THEN IF first.code = "TCL_OK" THEN first
                  ELSE After(first.ev,
                             EngineCreateRecognizer(first.st, cd, r.value, in.create))
             ELSE Outcome(S, "TCL_ERROR",
                          <<"create_recognizer not implemented for engine: ",
                            IF ctx.engine_type # NullStr THEN ctx.engine_type
                            ELSE "unknown">>, <<>>)

\* lines 138-158
ModelCreateRecognizer(cd, objv, S, in) ==
    IF Len(objv) # 4 \/ objv[3] # "-rate"
    THEN Outcome(S, "TCL_ERROR", Tcl_WrongNumArgs(2, objv, "-rate sample_rate"), <<>>)
    ELSE LET r == Tcl_GetIntFromObj(objv[4])
             ctx == S.mctx[cd]
             api == ctx.engine_funcs
         IN  IF r.code # "TCL_OK"
             THEN Outcome(S, "TCL_ERROR", r.msg, <<>>)
             ELSE IF api # NULL /\ HasCreateRecognizer(api)
             THEN EngineCreateRecognizer(S, cd, r.value, in.create)
             ELSE Outcome(S, "TCL_ERROR",
                          <<"create_recognizer not implemented for engine: ",
                            IF ctx.engine_type # NullStr THEN ctx.engine_type
                            ELSE "unknown">>, <<>>)

\* close that releases the handle and the context itself and leaves the
\* command registered
ModelClose_InPlace(cd, objv, S, in) ==
    Outcome([S EXCEPT !.mctx[cd] = [@ EXCEPT !.alloc = "freed", !.model = NULL]],
            "TCL_OK", <<"ok">>, <<Ev("model_free", S.mctx[cd].model, 0, "")>>)

\* close that first deletes the commands of the model's recognizers
ModelClose_Cascade(cd, objv, S, in) ==
    LET kids == {j \in RecIds : S.rctx[j].alloc = "live" /\ S.rctx[j].model_ctx = cd}
        dk(j) == recognizer_delete(j, S.rctx, S.mctx[cd].engine_funcs)
        evs[n \in 0..MaxRecognizers] ==
            IF n = 0 THEN <<>>
            ELSE evs[n - 1] \o (IF n \in kids THEN dk(n).ev ELSE <<>>)
        d == Tcl_DeleteCommand(S, objv[1], NULL)
    IN  Outcome([commands |-> {c \in d.st.commands :
                                 ~(c.proc = "RecognizerObjCmd" /\ c.cd \in kids)},
                 mctx |-> d.st.mctx,
                 rctx |-> [j \in RecIds |-> IF j \in kids THEN dk(j).heap[j]
                                            ELSE S.rctx[j]]],
                "TCL_OK", <<"ok">>, evs[MaxRecognizers] \o d.ev)

\* lines 160-164
ModelClose(cd, objv, S, in) ==
    LET d == Tcl_DeleteCommand(S, objv[1], NULL)
    IN  Outcome(d.st, "TCL_OK", <<"ok">>, d.ev)

\* ModelObjCmd(cd, interp, objc, objv)
ModelObjCmd(cd, objv, S, in) ==
    IF cd = NULL
    THEN Outcome(S, "TCL_ERROR", <<"model deleted">>, <<>>)
    ELSE IF Len(objv) < 2
    THEN Outcome(S, "TCL_ERROR", Tcl_WrongNumArgs(1, objv, "subcommand ?args?"), <<>>)
    ELSE
    LET sub == objv[2]
    IN  IF sub = "create_recognizer" THEN ModelCreateRecognizer(cd, objv, S, in)
        ELSE IF sub = "close" THEN ModelClose(cd, objv, S, in)
        ELSE UnknownSubcommand(S, sub)

\* Tcl_EvalObjv: the interpreter looks the command word up and calls the
\* command's procedure with its client data; a name that is not registered
\* is an error of the interpreter, and no procedure runs.
Tcl_EvalObjv(objv, S, in) ==
    IF ~Registered(S, objv[1])
    THEN Outcome(S, "TCL_ERROR", <<"invalid command name \"", objv[1], "\"">>, <<>>)
    ELSE LET c == Command(S, objv[1])
         IN  IF c.proc = "ModelObjCmd" THEN ModelObjCmd(c.cd, objv, S, in)
             ELSE RecognizerObjCmd(c.cd, objv, S, in)

(* ------------------------------------------------------------------ inputs *)
\* sample-rate texts: no integer, the int range, the window above INT_MAX
\* that Tcl_GetIntFromObj still accepts, and beyond it
RateTexts == {"", "abc", "1x", "-5", "16000", "2147483647",
              "3000000000", "4294967296"}

\* the words after the command name a model command is invoked with
ModelArgs ==
    { <<>>, <<"create_recognizer">>, <<"create_recognizer", "-rate">>,
      <<"create_recognizer", "-Rate", "16000">>,
      <<"create_recognizer", "-rate", "16000", "x">>,
      <<"close">>, <<"close", "extra">>,
      <<"CLOSE">>, <<"clos">>, <<"bogus-subcommand">> }
    \cup { <<"create_recognizer", "-rate", r>> : r \in RateTexts }

\* the words after the command name a recognizer command is invoked with
RecognizerArgs ==
    { <<>>, <<"accept-waveform">>, <<"accept-waveform", "">>,
      <<"accept-waveform", "ab">>, <<"accept-waveform", "ab", "x">>,
      <<"text">>, <<"text", "extra">>,
      <<"final-result">>, <<"final-result", "extra">>,
      <<"reset">>, <<"reset", "extra">>,
      <<"close">>, <<"close", "extra">>,
      <<"Text">>, <<"tex">>, <<"bogus-subcommand">> }

\* A command that is no longer registered never reaches its handler, so one
\* call per subcommand is enough there.
DeletedModelArgs ==
    { <<"create_recognizer", "-rate", "16000">>, <<"close">>, <<"bogus-subcommand">> }
DeletedRecognizerArgs ==
    { <<"accept-waveform", "ab">>, <<"text">>, <<"final-result">>, <<"reset">>,
      <<"close">>, <<"bogus-subcommand">> }

\* what the engine's accept_waveform returns
Waves == {0, 1, 2}
\* what the engine's get_text / get_final return: NULL or a hypothesis
Texts == {NullStr, "hello"}

\* the engine answers a handler with these arguments can consume
WavesFor(args) ==
    IF Len(args) > 0 /\ args[1] = "accept-waveform" THEN Waves ELSE {0}
TextsFor(args) ==
    IF Len(args) > 0 /\ args[1] \in {"text", "final-result"} THEN Texts ELSE {NullStr}
\* the subcommands that call through the table read at line 72; for the
\* others the value read there has no effect
ApiCalled(args) ==
    Len(args) > 0 /\ args[1] \in {"accept-waveform", "text", "final-result", "reset"}
CreatesFor(args) ==
    IF Len(args) > 0 /\ args[1] = "create_recognizer" THEN {"ok", "fail"} ELSE {"fail"}

(* ----------------------------------------------------------------- actions *)
ModelArgsFor(i) ==
    IF \E c \in commands : c.name = ModelName(i) THEN ModelArgs ELSE DeletedModelArgs
RecognizerArgsFor(j) ==
    IF \E c \in commands : c.name = RecName(j) THEN RecognizerArgs
    ELSE DeletedRecognizerArgs

State == [commands |-> commands, mctx |-> mctx, rctx |-> rctx]

Count(ev, op, arg) == Len(SelectSeq(ev, LAMBDA e : e.op = op /\ e.arg = arg))

\* the counters stop at CountCap
CountCap == 2
Bump(n, k) == IF n + k > CountCap THEN CountCap ELSE n + k

\* An operation c ended with outcome o.
Finish(c, o) ==
    /\ commands' = o.st.commands
    /\ mctx' = o.st.mctx
    /\ rctx' = o.st.rctx
    /\ call' = c
    /\ result' = [code |-> o.code, value |-> o.value]
    /\ trace' = o.ev
    /\ crashed' = o.crash
    /\ mfreed' = [i \in ModelIds |-> Bump(mfreed[i], Count(o.ev, "model_free", i))]
    /\ rfreed' = [j \in RecIds |-> Bump(rfreed[j], Count(o.ev, "recognizer_free", j))]
    /\ mdtor' = [i \in ModelIds |-> Bump(mdtor[i], Count(o.ev, "model_delete", i))]
    /\ rdtor' = [j \in RecIds |-> Bump(rdtor[j], Count(o.ev, "recognizer_delete", j))]

FreeModelIds == {i \in ModelIds : mctx[i].alloc = "none"}

\* The engine's "load model" operation.  how = "ok": it allocates a ModelCtx
\* with the engine's model handle, type tag and function table and registers
\* the model command with model_delete as its delete procedure.  how =
\* "fail": the engine could not load the model; it releases the half-built
\* context (no handle yet) through model_delete and reports an error.
EngineLoadModel(S, e, how) ==
    LET i == CHOOSE x \in FreeModelIds : \A y \in FreeModelIds : x <= y
    IN  IF how = "ok"
        THEN LET new == [alloc |-> "live", model |-> i, model_path |-> "/models/" \o e.type,
                         engine_type |-> e.type, cmdname |-> ModelName(i),
                         engine_funcs |-> e.funcs]
             IN  Outcome([commands |-> S.commands \cup
                                  {[name |-> ModelName(i), proc |-> "ModelObjCmd",
                                    cd |-> i]},
                          mctx |-> [S.mctx EXCEPT ![i] = new],
                          rctx |-> S.rctx],
                         "TCL_OK", <<ModelName(i)>>, <<>>)
        ELSE LET half == [alloc |-> "live", model |-> NULL,
                          model_path |-> "/models/" \o e.type,
                          engine_type |-> e.type, cmdname |-> NullStr,
                          engine_funcs |-> e.funcs]
                 d == model_delete(ScratchId, [k \in {ScratchId} |-> half])
             IN  Outcome(S, "TCL_ERROR", <<"failed to load model">>, d.ev)

LoadModel(e, how) ==
    /\ ~crashed
    /\ FreeModelIds # {}
    /\ \E o \in {EngineLoadModel(State, e, how)} :
           Finish([op |-> "load", objv |-> <<e.type>>], o)

\* A script invokes model command i.
InvokeModel(i, args, create) ==
    /\ ~crashed
    /\ mctx[i].alloc # "none"
    /\ LET objv == <<ModelName(i)>> \o args
       IN  \E o \in {Tcl_EvalObjv(objv, State, [create |-> create])} :
               Finish([op |-> "invoke", objv |-> objv], o)

\* A script invokes recognizer command j.
InvokeRecognizer(j, args, wave, text) ==
    /\ ~crashed
    /\ rctx[j].alloc # "none"
    /\ LET objv == <<RecName(j)>> \o args
           reads == EngineFuncsRead(mctx, rctx[j].model_ctx)
           any == CHOOSE v \in reads : TRUE
       IN  \E ef \in (IF ApiCalled(args) THEN reads ELSE {any}) :
           \E df \in (IF Len(args) > 0 /\ args[1] = "close" THEN reads ELSE {any}) :
           \E o \in {Tcl_EvalObjv(objv, State,
                                   [efuncs |-> ef, dfuncs |-> df,
                                    wave |-> wave, text |-> text])} :
               Finish([op |-> "invoke", objv |-> objv], o)

\* The interpreter deletes a command without the handler's close: rename to
\* the empty name, or the interpreter's teardown (Tcl_DeleteInterp deletes
\* the commands left, in no particular order).
DeleteCommand(c) ==
    /\ ~crashed
    /\ \E ef \in (IF c.proc = "RecognizerObjCmd"
                  THEN EngineFuncsRead(mctx, rctx[c.cd].model_ctx) ELSE {NULL}) :
         \E d \in {Tcl_DeleteCommand(State, c.name, ef)} :
             Finish([op |-> "delete", objv |-> <<c.name>>],
                    IF d.crash THEN Crash(d.st, d.ev)
                    ELSE Outcome(d.st, "TCL_OK", <<>>, d.ev))

Init ==
    /\ commands = {}
    /\ mctx = [i \in ModelIds |-> NoModelCtx]
    /\ rctx = [j \in RecIds |-> NoRecognizerCtx]
    /\ call = [op |-> "init", objv |-> <<>>]
    /\ result = [code |-> "TCL_OK", value |-> <<>>]
    /\ trace = <<>>
    /\ crashed = FALSE
    /\ mfreed = [i \in ModelIds |-> 0]
    /\ rfreed = [j \in RecIds |-> 0]
    /\ mdtor = [i \in ModelIds |-> 0]
    /\ rdtor = [j \in RecIds |-> 0]

Next ==
    \/ \E e \in Engines, how \in {"ok", "fail"} : LoadModel(e, how)
    \/ \E i \in ModelIds : \E args \in ModelArgsFor(i) :
           \E create \in CreatesFor(args) : InvokeModel(i, args, create)
    \/ \E j \in RecIds : \E args \in RecognizerArgsFor(j) :
           \E wave \in WavesFor(args), text \in TextsFor(args) :
               InvokeRecognizer(j, args, wave, text)
    \/ \E c \in commands : DeleteCommand(c)

Spec == Init /\ [][Next]_vars

(* ================================================================= claims *)
\* The error kinds of the specification, read off the messages of the code.
ErrorKind(res) ==
    IF res.code # "TCL_ERROR" THEN "None"
    ELSE LET h == res.value[1]
         IN  IF h = "recognizer closed" THEN "ObjectClosed"
             ELSE IF h = "model deleted" THEN "ObjectDeleted"
             ELSE IF h = "wrong # args: should be \"" THEN "WrongArity"
             ELSE IF h \in {"invalid audio data", "expected integer but got \"",
                            "integer value too large to represent"}
                  THEN "InvalidArgument"
             ELSE IF h = "create_recognizer not implemented for engine: "
                  THEN "UnsupportedOperation"
             ELSE IF h = "unknown subcommand \"" THEN "UnknownSubcommand"
             ELSE IF h = "invalid command name \"" THEN "InvalidCommand"
             ELSE "EngineFailure"

\* the last operation was a script invoking a command
Invoked == call.op = "invoke"
\* ... and the interpreter found the command, so its handler ran
HandlerRan == Invoked /\ ErrorKind(result) # "InvalidCommand"
\* the words after the command name, and the subcommand word (if any)
Args == Tail(call.objv)
Sub == IF Len(call.objv) >= 2 THEN call.objv[2] ELSE NullStr
OnModel(i) == Invoked /\ call.objv[1] = ModelName(i)
OnRecognizer(j) == Invoked /\ call.objv[1] = RecName(j)
IsRegistered(name) == \E c \in commands : c.name = name
HasEvent(op, arg) == \E k \in 1..Len(trace) : trace[k].op = op /\ trace[k].arg = arg

\* C1: once a recognizer's command has been deleted by close (its context is
\* freed), every later call of that command, whatever the subcommand, fails
\* with "recognizer closed" or the interpreter's error for a deleted command,
\* calls no engine function and changes nothing.
C1_ClosedRecognizerRejectsEveryCall ==
    [][\A j \in RecIds :
         (rctx[j].alloc = "freed" /\ call'.op = "invoke" /\ call'.objv[1] = RecName(j))
         => /\ result'.code = "TCL_ERROR"
            /\ ErrorKind(result') \in {"ObjectClosed", "InvalidCommand"}
            /\ EngineCalls(trace') = <<>>
            /\ rctx' = rctx /\ mctx' = mctx /\ commands' = commands]_vars

\* close again on a recognizer that close has already destroyed was refused
C1_Witness ==
    \E j \in RecIds :
        /\ OnRecognizer(j) /\ Sub = "close"
        /\ rctx[j].alloc = "freed" /\ rfreed[j] = 1
        /\ result.code = "TCL_ERROR" /\ trace = <<>>

\* C2: a recognizer operation never releases its parent ModelCtx, and every
\* read of model_ctx->engine_funcs by a recognizer subcommand or by
\* recognizer_delete finds the ModelCtx still allocated.
C2_RecognizerNeverTouchesDeadModel ==
    /\ \A k \in 1..Len(trace) :
           (trace[k].op = "read engine_funcs" /\ trace[k].arg # NULL)
           => mctx[trace[k].arg].alloc = "live"
    /\ \A j \in RecIds :
           (call.op \in {"invoke", "delete"} /\ call.objv[1] = RecName(j))
           => \A k \in 1..Len(trace) :
                  trace[k].op \notin {"model_delete", "model_free", "ckfree ModelCtx"}

\* a text that spells an integer: an optional minus sign and decimal digits
IsIntegerText(s) ==
    LET cs == Chars(s)
        ds == IF Len(cs) > 0 /\ cs[1] = "-" THEN Tail(cs) ELSE cs
    IN  Len(ds) > 0 /\ \A k \in 1..Len(ds) : ds[k] \in DigitChars

\* C3: create_recognizer -rate N on a live model: with an integer N and an
\* engine table that has create_recognizer, the engine's create_recognizer is
\* called exactly once, with that model context and with N, and its result is
\* returned; without the entry the call fails with UnsupportedOperation and
\* the message holds the engine type tag; with a rate that is no integer it
\* fails with InvalidArgument and the engine is not called.
C3_CreateRecognizerForwardsRate ==
    \A i \in ModelIds :
        (OnModel(i) /\ HandlerRan /\ Len(call.objv) = 4
         /\ Sub = "create_recognizer" /\ call.objv[3] = "-rate")
        => LET r == call.objv[4]
               calls == EngineCalls(trace)
           IN  IF ~IsIntegerText(r)
               THEN /\ ErrorKind(result) = "InvalidArgument"
                    /\ calls = <<>>
               ELSE IF HasCreateRecognizer(mctx[i].engine_funcs)
               THEN /\ Len(calls) = 1
                    /\ calls[1].op = "create_recognizer"
                    /\ calls[1].arg = i
                    /\ ToString(calls[1].n) = r
                    /\ result.code = calls[1].ret
               ELSE /\ ErrorKind(result) = "UnsupportedOperation"
                    /\ \E k \in 1..Len(result.value) :
                           result.value[k] = mctx[i].engine_type
                    /\ calls = <<>>

\* C4: accept-waveform with a payload of length 0 on an open recognizer fails
\* with InvalidArgument, and the engine's accept_waveform is not called.
C4_EmptyWaveformRejected ==
    \A j \in RecIds :
        (OnRecognizer(j) /\ HandlerRan /\ ErrorKind(result) # "ObjectClosed"
         /\ Len(call.objv) = 3 /\ Sub = "accept-waveform" /\ Len(call.objv[3]) = 0)
        => /\ result.code = "TCL_ERROR"
           /\ ErrorKind(result) = "InvalidArgument"
           /\ EngineCalls(trace) = <<>>
           /\ ~crashed

\* an open recognizer was given an empty payload and refused it
C4_Witness ==
    \E j \in RecIds :
        /\ OnRecognizer(j) /\ call.objv = <<RecName(j), "accept-waveform", "">>
        /\ IsRegistered(RecName(j)) /\ rctx[j].alloc = "live" /\ rctx[j].closed = 0
        /\ result = [code |-> "TCL_ERROR", value |-> <<"invalid audio data">>]

\* C5: text and final-result on an open recognizer always succeed, with the
\* engine's string, or with the empty string when the engine returns none.
C5_TextAlwaysSucceeds ==
    \A j \in RecIds :
        (OnRecognizer(j) /\ HandlerRan /\ ErrorKind(result) # "ObjectClosed"
         /\ Sub \in {"text", "final-result"})
        => /\ result.code = "TCL_OK"
           /\ Len(result.value) = 1
           /\ result.value[1] # NullStr
           /\ LET calls == EngineCalls(trace)
              IN  /\ Len(calls) = 1
                  /\ calls[1].op = (IF Sub = "text" THEN "get_text" ELSE "get_final")
                  /\ result.value[1] = (IF calls[1].ret = NullStr THEN ""
                                        ELSE calls[1].ret)

\* C6: each context's delete procedure runs at most once, and exactly once
\* when its command has been deleted; model_free / recognizer_free is called
\* at most once per handle and never with NULL; a context whose handle was
\* released holds NULL, and a released recognizer handle is not handed to the
\* engine again.
C6_DestructorOnceNoDoubleFree ==
    /\ \A i \in ModelIds :
           /\ mdtor[i] <= 1 /\ mfreed[i] <= 1
           /\ IsRegistered(ModelName(i)) => (mdtor[i] = 0 /\ mfreed[i] = 0)
           /\ (mctx[i].alloc # "none" /\ ~IsRegistered(ModelName(i))) => mdtor[i] = 1
           /\ mfreed[i] = 1 => (mctx[i].alloc = "freed" /\ mctx[i].model = NULL)
    /\ \A j \in RecIds :
           /\ rdtor[j] <= 1 /\ rfreed[j] <= 1
           /\ IsRegistered(RecName(j)) => (rdtor[j] = 0 /\ rfreed[j] = 0)
           /\ (rctx[j].alloc # "none" /\ ~IsRegistered(RecName(j))) => rdtor[j] = 1
           /\ rfreed[j] = 1 => (rctx[j].alloc = "freed" /\ rctx[j].recognizer = NULL)
           /\ (rfreed[j] = 1 /\ ~HasEvent("recognizer_free", j))
              => ~HasEvent("accept_waveform", j)
    /\ \A k \in 1..Len(trace) :
           trace[k].op \in {"model_free", "recognizer_free"} => trace[k].arg # NULL

\* a model and a recognizer have both been destroyed, the recognizer by
\* close and its handle released once
C6_Witness ==
    \E i \in ModelIds, j \in RecIds :
        /\ mctx[i].alloc = "freed" /\ mdtor[i] = 1 /\ mfreed[i] = 1
        /\ rctx[j].alloc = "freed" /\ rdtor[j] = 1 /\ rfreed[j] = 1
        /\ OnRecognizer(j) /\ Sub = "close" /\ result.code = "TCL_OK"

\* C7: close on an open recognizer or a live model returns "ok", and when it
\* returns the command is unregistered and the delete procedure has run: the
\* recognizer is closed and recognizer_free was called on its handle, or
\* model_free was called on the model's handle.
C7_CloseDestroysAndAcknowledges ==
    /\ \A j \in RecIds :
           (OnRecognizer(j) /\ HandlerRan /\ ErrorKind(result) # "ObjectClosed"
            /\ Sub = "close")
           => /\ result = [code |-> "TCL_OK", value |-> <<"ok">>]
              /\ ~IsRegistered(RecName(j))
              /\ rctx[j].closed = 1
              /\ HasEvent("recognizer_delete", j)
              /\ HasEvent("recognizer_free", j)
    /\ \A i \in ModelIds :
           (OnModel(i) /\ HandlerRan /\ Sub = "close")
           => /\ result = [code |-> "TCL_OK", value |-> <<"ok">>]
              /\ ~IsRegistered(ModelName(i))
              /\ HasEvent("model_delete", i)
              /\ HasEvent("model_free", i)

\* C8 as stated: once a model's command has been deleted by close, every later
\* call of that command fails with ObjectDeleted ("model deleted") and calls
\* neither create_recognizer nor model_free.
C8_DeletedModelReportsObjectDeleted ==
    [][\A i \in ModelIds :
         (mctx[i].alloc = "freed" /\ call'.op = "invoke" /\ call'.objv[1] = ModelName(i))
         => /\ ErrorKind(result') = "ObjectDeleted"
            /\ EngineCalls(trace') = <<>>]_vars

\* C8, amended: once a model's command has been deleted by close, every later
\* call of that command fails with the interpreter's error for a command that
\* does not exist (the handler and its "model deleted" guard are not reached),
\* calls neither create_recognizer nor model_free and changes nothing.
C8_DeletedModelRejectsEveryCall ==
    [][\A i \in ModelIds :
         (mctx[i].alloc = "freed" /\ call'.op = "invoke" /\ call'.objv[1] = ModelName(i))
         => /\ result'.code = "TCL_ERROR"
            /\ ErrorKind(result') = "InvalidCommand"
            /\ EngineCalls(trace') = <<>>
            /\ rctx' = rctx /\ mctx' = mctx /\ commands' = commands]_vars

\* create_recognizer on a model that close has destroyed was refused
C8_Witness ==
    \E i \in ModelIds :
        /\ OnModel(i) /\ Sub = "create_recognizer"
        /\ mctx[i].alloc = "freed" /\ mfreed[i] = 1
        /\ ErrorKind(result) = "InvalidCommand" /\ trace = <<>>

\* the subcommands of the command table
ModelTable == {"create_recognizer", "close"}
RecognizerTable == {"accept-waveform", "text", "final-result", "reset", "close"}

\* the handler of a live model / an open recognizer ran
ModelHandled(i) == OnModel(i) /\ HandlerRan /\ ErrorKind(result) # "ObjectDeleted"
RecognizerHandled(j) == OnRecognizer(j) /\ HandlerRan /\ ErrorKind(result) # "ObjectClosed"

\* the call has the wrong number of arguments for a subcommand whose count
\* the handlers check
CheckedArityWrong ==
    \/ Len(call.objv) = 1
    \/ \E i \in ModelIds : OnModel(i) /\ Sub = "create_recognizer"
                           /\ ~(Len(call.objv) = 4 /\ call.objv[3] = "-rate")
    \/ \E j \in RecIds : OnRecognizer(j) /\ Sub = "accept-waveform" /\ Len(call.objv) # 3

\* the call gives an extra argument to a subcommand that takes none
ExtraArgument ==
    /\ Len(call.objv) > 2
    /\ \/ \E i \in ModelIds : OnModel(i) /\ Sub = "close"
       \/ \E j \in RecIds : OnRecognizer(j)
                            /\ Sub \in {"text", "final-result", "reset", "close"}

\* the outcome C9 states for a call with the wrong number of arguments
RefusedAsWrongArity ==
    /\ result.code = "TCL_ERROR"
    /\ ErrorKind(result) = "WrongArity"
    /\ EngineCalls(trace) = <<>>
    /\ \A i \in ModelIds : OnModel(i) => (IsRegistered(ModelName(i))
                                           /\ mctx[i].alloc = "live")
    /\ \A j \in RecIds : OnRecognizer(j) => (IsRegistered(RecName(j))
                                             /\ rctx[j].alloc = "live"
                                             /\ rctx[j].closed = 0)

\* C9 as stated: every subcommand of the table refuses a wrong number of
\* arguments with WrongArity, calls no engine function and leaves the object
\* open.
C9_EverySubcommandChecksArity ==
    ((\E i \in ModelIds : ModelHandled(i)) \/ (\E j \in RecIds : RecognizerHandled(j)))
    => ((CheckedArityWrong \/ ExtraArgument) => RefusedAsWrongArity)

\* C9, amended: a call without a subcommand, create_recognizer without exactly
\* "-rate <value>" and accept-waveform without exactly one payload fail with
\* WrongArity, call no engine function and leave the object open; text,
\* final-result, reset and close do not look at their argument count and
\* never fail with WrongArity.
C9_CheckedSubcommandsRefuseWrongArity ==
    ((\E i \in ModelIds : ModelHandled(i)) \/ (\E j \in RecIds : RecognizerHandled(j)))
    => /\ CheckedArityWrong => RefusedAsWrongArity
       /\ ExtraArgument => ErrorKind(result) # "WrongArity"

\* accept-waveform with two payloads was refused by an open recognizer
C9_Witness ==
    \E j \in RecIds :
        /\ RecognizerHandled(j) /\ Sub = "accept-waveform" /\ Len(call.objv) = 4
        /\ ErrorKind(result) = "WrongArity"
        /\ IsRegistered(RecName(j)) /\ rctx[j].closed = 0

\* C10: on a live model and on an open recognizer a subcommand word that is
\* not exactly an entry of the object's table fails with UnknownSubcommand,
\* the message holds the word as given, no engine function is called and the
\* object stays registered and open.
C10_UnknownSubcommandRejected ==
    /\ \A i \in ModelIds :
           (ModelHandled(i) /\ Len(call.objv) >= 2 /\ Sub \notin ModelTable)
           => /\ result.code = "TCL_ERROR"
              /\ ErrorKind(result) = "UnknownSubcommand"
              /\ \E k \in 1..Len(result.value) : result.value[k] = Sub
              /\ EngineCalls(trace) = <<>>
              /\ IsRegistered(ModelName(i)) /\ mctx[i].alloc = "live"
    /\ \A j \in RecIds :
           (RecognizerHandled(j) /\ Len(call.objv) >= 2 /\ Sub \notin RecognizerTable)
           => /\ result.code = "TCL_ERROR"
              /\ ErrorKind(result) = "UnknownSubcommand"
              /\ \E k \in 1..Len(result.value) : result.value[k] = Sub
              /\ EngineCalls(trace) = <<>>
              /\ IsRegistered(RecName(j)) /\ rctx[j].alloc = "live"
              /\ rctx[j].closed = 0

\* an open recognizer refused "Text", which differs from an entry only in case
C10_Witness ==
    \E j \in RecIds :
        /\ RecognizerHandled(j) /\ Sub = "Text"
        /\ result = [code |-> "TCL_ERROR",
                     value |-> <<"unknown subcommand \"", "Text", "\"">>]
        /\ IsRegistered(RecName(j)) /\ rctx[j].closed = 0

\* the subcommand word of an operation c (if any)
SubOf(c) == IF Len(c.objv) >= 2 THEN c.objv[2] ELSE NullStr

\* C11: the closed flag of a recognizer context starts at 0, never goes from
\* 1 back to 0, and goes from 0 to 1 only in recognizer_delete, run for the
\* close subcommand of that recognizer or for the deletion of its command;
\* accept-waveform, text, final-result, reset and every call that fails leave
\* every recognizer's flag and registration as they were.
C11_ClosedFlagMonotonic ==
    [][\A j \in RecIds :
         /\ (rctx[j].alloc = "none" /\ rctx'[j].alloc # "none") => rctx'[j].closed = 0
         /\ rctx[j].closed = 1 => rctx'[j].closed = 1
         /\ (rctx[j].closed = 0 /\ rctx'[j].closed = 1)
            => /\ call'.objv[1] = RecName(j)
               /\ \/ call'.op = "delete"
                  \/ call'.op = "invoke" /\ SubOf(call') = "close"
               /\ \E k \in 1..Len(trace') :
                      trace'[k].op = "closed=1" /\ trace'[k].arg = j
         /\ (call'.op = "invoke"
             /\ \/ result'.code = "TCL_ERROR"
                \/ /\ call'.objv[1] \in {RecName(x) : x \in RecIds}
                   /\ SubOf(call') \in {"accept-waveform", "text", "final-result", "reset"})
            => /\ rctx'[j].closed = rctx[j].closed
               /\ (\E c \in commands' : c.name = RecName(j)) = IsRegistered(RecName(j))]_vars

\* the interpreter deleted an open recognizer's command, and recognizer_delete
\* set its closed flag
C11_Witness ==
    \E j \in RecIds :
        /\ call = [op |-> "delete", objv |-> <<RecName(j)>>]
        /\ HasEvent("closed=1", j)
        /\ rctx[j].closed = 1 /\ ~IsRegistered(RecName(j))

(* ------------------------------------ the handler on a context being deleted *)
\* A RecognizerCtx holds closed = 1 only while recognizer_delete is at work on
\* it, between line 38 and the ckfree of line 53.  The interpreter takes the
\* command out only after the delete procedure has returned, so a call that
\* comes in while it is under way (from the engine's recognizer_free, say)
\* still reaches RecognizerObjCmd with the client data of that context.
\* HandlerSpec enters the handler on such a context, and on an open one.

\* how far recognizer_delete has got: not entered, or past the line named
\* ("43": past the block of lines 40-44, entered or skipped)
DeleteSteps == {"open", "38", "43", "47", "51"}

\* the RecognizerCtx j of model i when recognizer_delete has got as far as
\* step; efuncs is what its read of ctx->model_ctx->engine_funcs yields
\* (line 40): with NULL lines 41-43 are skipped and the handle stays
RecognizerCtxAt(step, j, i, efuncs) ==
    [alloc |-> "live",
     closed |-> IF step = "open" THEN 0 ELSE 1,
     recognizer |-> IF step \in {"open", "38"} \/ efuncs = NULL THEN j ELSE NULL,
     model |-> IF step \in {"open", "38", "43"} THEN i ELSE NULL,
     model_ctx |-> i,
     cmdname |-> IF step = "51" THEN NullStr ELSE RecName(j)]

\* the first model and its first recognizer
FirstModel == CHOOSE i \in ModelIds : \A x \in ModelIds : i <= x
FirstRec == CHOOSE j \in RecIds : \A x \in RecIds : j <= x

\* One model of engine e with one recognizer at the given step, its command
\* still registered; dead: the model's command has been deleted before
\* (model_delete has run), so that the read of line 40 is a read of freed
\* memory.  A read that yields a pointer that is no table ends the process
\* in line 42 and leaves no state to start from.
HandlerInit ==
    \E e \in Engines, step \in DeleteSteps, dead \in BOOLEAN :
    \E efuncs \in (IF dead THEN {e.funcs, NULL} ELSE {e.funcs}) :
        LET i == FirstModel
            j == FirstRec
            m == [alloc |-> "live", model |-> i, model_path |-> "/models/" \o e.type,
                  engine_type |-> e.type, cmdname |-> ModelName(i),
                  engine_funcs |-> e.funcs]
            heap == [x \in ModelIds |-> IF x = i THEN m ELSE NoModelCtx]
        IN  /\ commands =
                  (IF dead THEN {}
                   ELSE {[name |-> ModelName(i), proc |-> "ModelObjCmd", cd |-> i]})
                  \cup {[name |-> RecName(j), proc |-> "RecognizerObjCmd", cd |-> j]}
            /\ mctx = (IF dead THEN model_delete(i, heap).heap ELSE heap)
            /\ rctx = [x \in RecIds |-> IF x = j THEN RecognizerCtxAt(step, j, i, efuncs)
                                        ELSE NoRecognizerCtx]
            /\ call = [op |-> "init", objv |-> <<>>]
            /\ result = [code |-> "TCL_OK", value |-> <<>>]
            /\ trace = <<>>
            /\ crashed = FALSE
            /\ mfreed = [x \in ModelIds |-> IF dead /\ x = i THEN 1 ELSE 0]
            /\ mdtor = [x \in ModelIds |-> IF dead /\ x = i THEN 1 ELSE 0]
            /\ rfreed = [x \in RecIds |->
                           IF x = j /\ step \in {"43", "47", "51"} /\ efuncs # NULL
                           THEN 1 ELSE 0]
            /\ rdtor = [x \in RecIds |-> IF x = j /\ step # "open" THEN 1 ELSE 0]

\* RecognizerObjCmd is entered with the client data of context j.
CallRecognizerObjCmd(j, args, wave, text) ==
    /\ ~crashed
    /\ rctx[j].alloc = "live"
    /\ LET objv == <<RecName(j)>> \o args
           reads == EngineFuncsRead(mctx, rctx[j].model_ctx)
           any == CHOOSE v \in reads : TRUE
       IN  \E ef \in (IF ApiCalled(args) THEN reads ELSE {any}) :
           \E df \in (IF Len(args) > 0 /\ args[1] = "close" THEN reads ELSE {any}) :
           \E o \in {RecognizerObjCmd(j, objv, State,
                                       [efuncs |-> ef, dfuncs |-> df,
                                        wave |-> wave, text |-> text])} :
               Finish([op |-> "invoke", objv |-> objv], o)

HandlerNext ==
    \E j \in RecIds : \E args \in RecognizerArgs :
        \E wave \in WavesFor(args), text \in TextsFor(args) :
            CallRecognizerObjCmd(j, args, wave, text)

HandlerSpec == HandlerInit /\ [][HandlerNext]_vars

\* C12: RecognizerObjCmd entered on a context whose closed flag is 1 fails
\* with "recognizer closed" whatever the arguments are (no subcommand, an
\* unknown one, a wrong count), takes no step before that (no read of the
\* parent ModelCtx, no engine call) and changes nothing.
C12_ClosedCheckedFirst ==
    [][\A j \in RecIds :
         (rctx[j].alloc = "live" /\ rctx[j].closed = 1
          /\ call'.op = "invoke" /\ call'.objv[1] = RecName(j))
         => /\ result' = [code |-> "TCL_ERROR", value |-> <<"recognizer closed">>]
            /\ trace' = <<>>
            /\ ~crashed'
            /\ rctx' = rctx /\ mctx' = mctx /\ commands' = commands]_vars

\* the handler was entered without a subcommand on a closed context whose
\* command is still registered and whose parent model is gone, and answered
\* "recognizer closed"
C12_Witness ==
    \E j \in RecIds :
        /\ call = [op |-> "invoke", objv |-> <<RecName(j)>>]
        /\ rctx[j].alloc = "live" /\ rctx[j].closed = 1
        /\ IsRegistered(RecName(j))
        /\ mctx[rctx[j].model_ctx].alloc = "freed"
        /\ ErrorKind(result) = "ObjectClosed" /\ trace = <<>>

\* the engine functions that work on a recognizer: accept_waveform takes its
\* handle, the others its context
RecognizerUseOps == {"accept_waveform", "get_text", "get_final", "reset"}

\* C13: in recognizer_delete closed is set before recognizer_free is called
\* and the handle is set to NULL right after it; whenever recognizer_free has
\* been called for a recognizer its closed flag is 1; and after that call no
\* accept_waveform, get_text, get_final or reset is made for the recognizer.
C13_DestructorStepOrder ==
    /\ \A j \in RecIds : rfreed[j] >= 1 => rctx[j].closed = 1
    /\ \A k \in 1..Len(trace) :
           trace[k].op = "recognizer_free"
           => /\ \E a \in 1..(k - 1) :
                     trace[a].op = "closed=1" /\ trace[a].arg = trace[k].arg
              /\ k < Len(trace)
              /\ trace[k + 1].op = "recognizer=NULL"
              /\ trace[k + 1].arg = trace[k].arg
              /\ \A b \in (k + 1)..Len(trace) :
                     ~(trace[b].op \in RecognizerUseOps /\ trace[b].arg = trace[k].arg)
    /\ \A j \in RecIds :
           (rfreed[j] >= 1 /\ ~HasEvent("recognizer_free", j))
           => \A b \in 1..Len(trace) :
                  ~(trace[b].op \in RecognizerUseOps /\ trace[b].arg = j)

\* the interpreter deleted a recognizer's command and recognizer_delete
\* released the handle of the now closed context
C13_Witness ==
    \E j \in RecIds :
        /\ call = [op |-> "delete", objv |-> <<RecName(j)>>]
        /\ HasEvent("closed=1", j) /\ HasEvent("recognizer_free", j)
        /\ HasEvent("recognizer=NULL", j)
        /\ rfreed[j] = 1 /\ rctx[j].closed = 1 /\ rctx[j].recognizer = NULL

\* the commands registered in C whose handler is RecognizerObjCmd
RecognizerCommands(C) == {c \in C : c.proc = "RecognizerObjCmd"}

\* C14: the step that destroys a model (close, or the deletion of its command
\* by the interpreter) leaves every recognizer context as it was (closed flag,
\* engine handle, parent reference), leaves every recognizer command
\* registered, and runs neither recognizer_delete nor recognizer_free.
C14_ModelCloseDoesNotCascade ==
    [][\A i \in ModelIds :
         (mctx[i].alloc = "live" /\ mctx'[i].alloc = "freed")
         => /\ call'.op \in {"invoke", "delete"} /\ call'.objv[1] = ModelName(i)
            /\ rctx' = rctx
            /\ RecognizerCommands(commands') = RecognizerCommands(commands)
            /\ \A k \in 1..Len(trace') :
                   trace'[k].op \notin {"recognizer_delete", "closed=1", "recognizer_free"}]_vars

\* close destroyed a model while one of its recognizers was open, and the
\* recognizer is still open, registered and holds its handle
C14_Witness ==
    \E i \in ModelIds, j \in RecIds :
        /\ OnModel(i) /\ Sub = "close" /\ result = [code |-> "TCL_OK", value |-> <<"ok">>]
        /\ mctx[i].alloc = "freed" /\ HasEvent("model_free", i)
        /\ rctx[j].alloc = "live" /\ rctx[j].model_ctx = i
        /\ rctx[j].closed = 0 /\ rctx[j].recognizer # NULL
        /\ IsRegistered(RecName(j)) /\ rfreed[j] = 0

\* the error kinds with which a handler refuses a call before doing anything
RefusalKinds == {"ObjectClosed", "ObjectDeleted", "WrongArity", "InvalidArgument",
                 "UnsupportedOperation", "UnknownSubcommand"}

\* C15: one invocation of a subcommand makes at most one call through the
\* EngineAPI table, and an invocation that fails with ObjectClosed,
\* ObjectDeleted, WrongArity, InvalidArgument, UnsupportedOperation or
\* UnknownSubcommand makes none and leaves the model contexts, the recognizer
\* contexts and the command registrations unchanged.
C15_NoRetryNoEffectOnFailure ==
    [][call'.op = "invoke"
       => /\ Len(EngineCalls(trace')) <= 1
          /\ ErrorKind(result') \in RefusalKinds
             => /\ result'.code = "TCL_ERROR"
                /\ EngineCalls(trace') = <<>>
                /\ mctx' = mctx /\ rctx' = rctx /\ commands' = commands]_vars

\* a model whose engine has no create_recognizer refused the call: no engine
\* call, model still live and registered
C15_Witness ==
    \E i \in ModelIds :
        /\ ModelHandled(i) /\ Sub = "create_recognizer"
        /\ ErrorKind(result) = "UnsupportedOperation"
        /\ EngineCalls(trace) = <<>>
        /\ mctx[i].alloc = "live" /\ mctx[i].model # NULL /\ IsRegistered(ModelName(i))

\* C16: accept-waveform with a payload of one or more bytes on an open
\* recognizer calls the engine's accept_waveform exactly once, with the
\* recognizer's handle and the number of bytes of the payload, returns the
\* boolean 1 exactly when the engine returned a non-zero value, and leaves the
\* recognizer as it was (live, open, registered, same handle).
C16_AcceptWaveformForwardsPayload ==
    \A j \in RecIds :
        (RecognizerHandled(j) /\ Sub = "accept-waveform"
         /\ Len(call.objv) = 3 /\ Len(call.objv[3]) > 0)
        => LET calls == EngineCalls(trace)
           IN  /\ result.code = "TCL_OK"
               /\ Len(calls) = 1
               /\ calls[1].op = "accept_waveform"
               /\ calls[1].arg = rctx[j].recognizer
               /\ calls[1].n = Len(call.objv[3])
               /\ result.value = <<IF calls[1].ret # "0" THEN "1" ELSE "0">>
               /\ rctx[j].alloc = "live" /\ rctx[j].closed = 0
               /\ rctx[j].recognizer # NULL /\ IsRegistered(RecName(j))

\* C17: once no command is registered any more, whatever the order in which
\* the commands of models and recognizers were deleted (close or deletion by
\* the interpreter), every model context that was created has had its handle
\* released by exactly one model_free, and every recognizer context its
\* handle by exactly one recognizer_free.
C17_NoHandleLeaked ==
    (commands = {} /\ ~crashed)
    => /\ \A i \in ModelIds :
              mctx[i].alloc # "none"
              => (mctx[i].alloc = "freed" /\ mfreed[i] = 1 /\ mctx[i].model = NULL)
       /\ \A j \in RecIds :
              rctx[j].alloc # "none"
              => (rctx[j].alloc = "freed" /\ rfreed[j] = 1 /\ rctx[j].recognizer = NULL)

====
